---- MODULE Spec2Model ----
(***************************************************************************)
(* Model of ccsv/detect_type.py: the pattern catalog PATTERNS, the         *)
(* TypeDetector (construction, the ten predicates, detect_type) and        *)
(* type_score.                                                             *)
(*                                                                         *)
(* A cell is a sequence of characters; a character is a string.  The       *)
(* non-ASCII characters of the date patterns carry their code point as     *)
(* name ("U5E74" is the character U+5E74).  A compiled pattern is matched  *)
(* with fullmatch, modelled as the set of positions of the cell that a     *)
(* piece of the pattern can end at, given the positions it can start at.   *)
(***************************************************************************)
EXTENDS Integers, Sequences, FiniteSets, TLC

(***************************************************************************)
(* Characters of the model and the character classes the patterns use.     *)
(***************************************************************************)
Digits == {"0", "1", "2", "3", "4", "5", "6", "7", "8", "9"}

AsciiLower == {"a", "b", "e", "n", "t", "w"}

AsciiUpper == {"A", "E", "N", "T"}

AsciiLetters == AsciiLower \cup AsciiUpper

\* year, month, day joiners of pat_cn and pat_ko (all of category Lo)
CJK == {"U5E74", "U6708", "U65E5", "UB144", "UC6D4", "UC77C"}

\* \p{L}
UnicodeL == AsciiLetters \cup CJK

\* \p{N}
UnicodeN == Digits

\* \w
Word == UnicodeL \cup UnicodeN \cup {"_"}

\* \p{Sc}
UnicodeSc == {"$"}

\* \s
Whitespace == {" "}

\* the members of SPECIALS_ALLOWED that are characters of the model
SPECIALS_ALLOWED == {".", "(", ")", "?", "!"}

Punct == {" ", "+", "-", ",", ".", ":", "/", "%", "$", "@", "#", "_", ";",
          "&", "=", "~", "(", ")", "?", "!"}

\* every character of the model; "." of a pattern matches each of them
Chars == Digits \cup UnicodeL \cup Punct

(***************************************************************************)
(* str methods.                                                            *)
(***************************************************************************)
RECURSIVE lstrip(_, _)
lstrip(s, c) == IF s # <<>> /\ Head(s) = c THEN lstrip(Tail(s), c) ELSE s

RECURSIVE rstrip(_, _)
rstrip(s, c) ==
    IF s # <<>> /\ s[Len(s)] = c THEN rstrip(SubSeq(s, 1, Len(s) - 1), c) ELSE s

strip(s, c) == rstrip(lstrip(s, c), c)

contains(s, c) == \E i \in 1..Len(s) : s[i] = c

endswith(s, c) == s # <<>> /\ s[Len(s)] = c

\* s.split(c): the parts between the occurrences of c, one more than there
\* are occurrences
RECURSIVE split(_, _)
split(s, c) ==
    IF ~contains(s, c) THEN <<s>>
    ELSE LET i == CHOOSE j \in 1..Len(s) :
                      s[j] = c /\ \A k \in 1..(j - 1) : s[k] # c
         IN  <<SubSeq(s, 1, i - 1)>> \o split(SubSeq(s, i + 1, Len(s)), c)

lowerChar(c) ==
    CASE c = "A" -> "a"
      [] c = "E" -> "e"
      [] c = "N" -> "n"
      [] c = "T" -> "t"
      [] OTHER -> c

lower(s) == [i \in 1..Len(s) |-> lowerChar(s[i])]

(***************************************************************************)
(* Pieces of a pattern.  P is the set of positions (0..Len(s), the number  *)
(* of characters consumed) a piece may start at; the value is the set of   *)
(* positions it may end at.                                                *)
(***************************************************************************)
\* one character of class C
In(s, P, C) == {q + 1 : q \in {p \in P : p < Len(s) /\ s[p + 1] \in C}}

\* the literal character c
Lit(s, P, c) == In(s, P, {c})

\* C*
Star(s, P, C) ==
    {q \in 0..Len(s) : \E p \in P : p <= q /\ \A i \in (p + 1)..q : s[i] \in C}

\* C+
Plus(s, P, C) == Star(s, In(s, P, C), C)

\* C{lo,hi}
Rep(s, P, C, lo, hi) ==
    {q \in 0..Len(s) :
        \E p \in P : (q - p) \in lo..hi /\ \A i \in (p + 1)..q : s[i] \in C}

\* the literal text w
Str(s, P, w) ==
    {p + Len(w) : p \in {q \in P : q + Len(w) <= Len(s)
                                   /\ SubSeq(s, q + 1, q + Len(w)) = w}}

\* c?
OptLit(s, P, c) == P \cup Lit(s, P, c)

\* C?
OptIn(s, P, C) == P \cup In(s, P, C)

\* (?:w)?
OptStr(s, P, w) == P \cup Str(s, P, w)

\* fullmatch: the pattern can end at the end of the cell
AtEnd(s, P) == Len(s) \in P

(***************************************************************************)
(* PATTERNS: the accept language of each pattern source.                   *)
(***************************************************************************)
\* [eE][+-]?\d+
Exponent(s, P) == Plus(s, OptIn(s, In(s, P, {"e", "E"}), {"+", "-"}), Digits)

\* ([eE][+-]?\d+)?
OptExponent(s, P) == P \cup Exponent(s, P)

\* (\d+[eE][+-]?\d+)?
OptDigitsExponent(s, P) == P \cup Exponent(s, Plus(s, P, Digits))

\* (?=[+-\.\d]): the class holds a range, "+" to ".", that is the
\* characters + , - .
lookahead(s) ==
    IF s # <<>> /\ s[1] \in ({"+", ",", "-", "."} \cup Digits) THEN {0} ELSE {}

\* (?:0|[1-9]\d*)?
OptInteger(s, P) ==
    P \cup Lit(s, P, "0") \cup Star(s, In(s, P, Digits \ {"0"}), Digits)

\* (?P<yes_dot>\d*(\d+[eE][+-]?\d+)?), after a dot that was taken
yes_dot(s, dot) == OptDigitsExponent(s, Star(s, dot, Digits))

\* (?P<no_dot>([eE][+-]?\d+)?), where no dot was taken
no_dot(s, P) == OptExponent(s, P)

\* (?P<yes_comma>\d+(\d+[eE][+-]?\d+)?), after a comma that was taken
yes_comma(s, comma) == OptDigitsExponent(s, Plus(s, comma, Digits))

\* (?P<no_comma>([eE][+-]?\d+)?), where no comma was taken
no_comma(s, P) == OptExponent(s, P)

\* the two alternatives after the integer part: the conditional (?(dot)yes|no)
\* is the yes branch after a dot and the no branch where none was taken
number_1_tail(s, P) ==
    yes_dot(s, Lit(s, P, ".")) \cup no_dot(s, P)
    \cup yes_comma(s, Lit(s, P, ",")) \cup no_comma(s, P)

number_1(s) ==
    AtEnd(s, number_1_tail(s, OptInteger(s, OptIn(s, lookahead(s), {"+", "-"}))))

\* [+-]?(?:[1-9]|[1-9]\d{0,2})(?:\,\d{3})+\.\d*  with group separator g and
\* decimal separator d
RECURSIVE Groups(_, _, _)
Groups(s, P, g) ==
    LET one == Rep(s, Lit(s, P, g), Digits, 3, 3)
    IN  IF one = {} THEN {} ELSE one \cup Groups(s, one, g)

Grouped(s, g, d) ==
    LET P1 == {0} \cup In(s, {0}, {"+", "-"})
        P2 == Rep(s, In(s, P1, Digits \ {"0"}), Digits, 0, 2)
    IN  AtEnd(s, Star(s, Lit(s, Groups(s, P2, g), d), Digits))

number_2(s) == Grouped(s, ",", ".")

number_3(s) == Grouped(s, ".", ",")

urlUser == {"-", ";", ":", "&", "=", "+", "$", ","} \cup Word

urlHost == AsciiLetters \cup Digits \cup {".", "-"}

urlPath == {"+", "~", "%", "/", ".", "-", "_"} \cup Word

urlQuery == {"-", "+", "=", "&", ";", "%", "@", ".", "_"} \cup Word

\* (?:[-;:&=\+\$,\w]+@)?[A-Za-z0-9.-]+
url_host(s, P) == Plus(s, P \cup Lit(s, Plus(s, P, urlUser), "@"), urlHost)

\* (?:[A-Za-z]{3,9}:(?:\/\/)?)(?:[-;:&=\+\$,\w]+@)?[A-Za-z0-9.-]+
url_alt1(s) ==
    url_host(s, OptStr(s, Lit(s, Rep(s, {0}, AsciiLetters, 3, 9), ":"), <<"/", "/">>))

\* (?:www.|[-;:&=\+\$,\w]+@)[A-Za-z0-9.-]+
url_alt2(s) ==
    Plus(s, In(s, Str(s, {0}, <<"w", "w", "w">>), Chars)
            \cup Lit(s, Plus(s, {0}, urlUser), "@"), urlHost)

\* (?:\/[\+~%\/.\w\-_]*)?
OptPath(s, P) == P \cup Star(s, Lit(s, P, "/"), urlPath)

\* (?:(?:\/[\+~%\/.\w\-_]*)?\??(?:[-\+=&;%@.\w_]*)#?(?:[\w]*))?
url_rest(s, head) ==
    head \cup Star(s, OptLit(s, Star(s, OptLit(s, OptPath(s, head), "?"), urlQuery), "#"), Word)

url(s) == AtEnd(s, url_rest(s, url_alt1(s) \cup url_alt2(s)))

email(s) ==
    LET local == Plus(s, {0}, AsciiLetters \cup Digits \cup {"_", ".", "+", "-"})
        domain == Plus(s, Lit(s, local, "@"), AsciiLetters \cup Digits \cup {"-"})
    IN  AtEnd(s, Plus(s, Lit(s, domain, "."), AsciiLetters \cup Digits \cup {"-", "."}))

alnumRun == UnicodeN \cup UnicodeL \cup {" "} \cup SPECIALS_ALLOWED

unicode_alphanum(s) ==
    LET alt1 == Star(s, Plus(s, Plus(s, {0}, UnicodeN), UnicodeL), alnumRun)
        alt2 == Plus(s, Plus(s, {0}, UnicodeL), alnumRun)
    IN  AtEnd(s, alt1 \cup alt2)

\* (0[0-9]|1[0-9]|2[0-3])
Hour2(s, P) ==
    In(s, In(s, P, {"0", "1"}), Digits) \cup In(s, Lit(s, P, "2"), {"0", "1", "2", "3"})

\* ([0-5][0-9])
Sixty(s, P) == In(s, In(s, P, {"0", "1", "2", "3", "4", "5"}), Digits)

time_hhmmss(s) ==
    AtEnd(s, Sixty(s, Lit(s, Sixty(s, Lit(s, Hour2(s, {0}), ":")), ":")))

time_hhmm(s) == AtEnd(s, Sixty(s, Lit(s, Hour2(s, {0}), ":")))

time_HHMM(s) == AtEnd(s, Sixty(s, Hour2(s, {0})))

time_HH(s) == AtEnd(s, Sixty(s, Hour2(s, {0})))

\* ([0-9]|1[0-9]|2[0-3]):([0-5][0-9])
time_hmm(s) ==
    LET hour == In(s, {0}, Digits) \cup In(s, Lit(s, {0}, "1"), Digits)
                \cup In(s, Lit(s, {0}, "2"), {"0", "1", "2", "3"})
    IN  AtEnd(s, Sixty(s, Lit(s, hour, ":")))

\* \p{Sc}\s?(.*): whether it matches and what group 1 then holds
currency(s) == s # <<>> /\ s[1] \in UnicodeSc

currencyGroup(s) ==
    IF Len(s) >= 2 /\ s[2] \in Whitespace THEN SubSeq(s, 3, Len(s))
    ELSE SubSeq(s, 2, Len(s))

unix_path(s) ==
    LET seg == AsciiLetters \cup Digits \cup {"."}
        start == Rep(s, {0}, {"/", "~"}, 1, 2)
        RECURSIVE dirs(_)
        dirs(P) == LET one == Rep(s, Plus(s, P, seg), {"/"}, 1, 2)
                   IN  IF one \subseteq P THEN P ELSE dirs(P \cup one)
        first == Rep(s, Plus(s, start, seg), {"/"}, 1, 2)
    IN  AtEnd(s, Plus(s, dirs(first), seg))

(***************************************************************************)
(* _init_date_patterns: a date pattern source is the sequence of its       *)
(* pieces, as str.format puts them together.                               *)
(***************************************************************************)
DatePiece(name, s, P) ==
    CASE name = "year2" -> Rep(s, P, Digits, 2, 2)
      [] name = "year4" -> Rep(s, In(s, P, {"1", "2"}), Digits, 3, 3)
      [] name = "month_leading" ->
            In(s, Lit(s, P, "0"), Digits \ {"0"}) \cup In(s, Lit(s, P, "1"), {"0", "1", "2"})
      [] name = "month_sparse" ->
            In(s, P, Digits \ {"0"}) \cup In(s, Lit(s, P, "1"), {"0", "1", "2"})
      [] name = "day_leading" ->
            In(s, Lit(s, P, "0"), Digits \ {"0"}) \cup In(s, In(s, P, {"1", "2"}), Digits)
            \cup In(s, Lit(s, P, "3"), {"0", "1"})
      [] name = "day_sparse" ->
            In(s, P, Digits \ {"0"}) \cup In(s, In(s, P, {"1", "2"}), Digits)
            \cup In(s, Lit(s, P, "3"), {"0", "1"})
      [] name = "sep" -> In(s, P, {"-", "/", ".", " "})
      [] OTHER -> Lit(s, P, name)

RECURSIVE DatePieces(_, _, _)
DatePieces(src, s, P) ==
    IF src = <<>> \/ P = {} THEN P
    ELSE DatePieces(Tail(src), s, DatePiece(Head(src), s, P))

\* "{year}{sep}{month}{sep}{day}".format(**fmt) and its two reorderings;
\* sep is <<"sep">> or, for the compact patterns, the empty text
pat_1(year, month, day, sep) == <<year>> \o sep \o <<month>> \o sep \o <<day>>

pat_2(year, month, day, sep) == <<day>> \o sep \o <<month>> \o sep \o <<year>>

pat_3(year, month, day, sep) == <<month>> \o sep \o <<day>> \o sep \o <<year>>

pat_cn(year, month, day) == <<year, "U5E74", month, "U6708", day, "U65E5">>

pat_ko(year, month, day) == <<year, "UB144", month, "UC6D4", day, "UC77C">>

\* the body of the first loop: [pat_1, pat_2, pat_3, pat_cn, pat_ko]
SepBlock(year, month, day) ==
    << pat_1(year, month, day, <<"sep">>), pat_2(year, month, day, <<"sep">>),
       pat_3(year, month, day, <<"sep">>), pat_cn(year, month, day),
       pat_ko(year, month, day) >>

\* the body of the second loop: [pat_1, pat_2, pat_3, pat_cn], where pat_cn is
\* still the one the last pass of the first loop left
CompactBlock(year) ==
    << pat_1(year, "month_leading", "day_leading", <<>>),
       pat_2(year, "month_leading", "day_leading", <<>>),
       pat_3(year, "month_leading", "day_leading", <<>>),
       pat_cn("year4", "month_sparse", "day_sparse") >>

\* the pattern sources in the order of counter
DateSources ==
    SepBlock("year2", "month_leading", "day_leading")
    \o SepBlock("year2", "month_leading", "day_sparse")
    \o SepBlock("year2", "month_sparse", "day_leading")
    \o SepBlock("year2", "month_sparse", "day_sparse")
    \o SepBlock("year4", "month_leading", "day_leading")
    \o SepBlock("year4", "month_leading", "day_sparse")
    \o SepBlock("year4", "month_sparse", "day_leading")
    \o SepBlock("year4", "month_sparse", "day_sparse")
    \o CompactBlock("year2") \o CompactBlock("year4")

\* "date_%i" % counter
DateKey(counter) == "date_" \o ToString(counter)

\* patname.startswith("date_")
\* the keys the two loops store under, and what they store under each
DateKeys == {DateKey(counter) : counter \in 0..(Len(DateSources) - 1)}

DatePatterns ==
    [k \in DateKeys |->
        DateSources[(CHOOSE counter \in 0..(Len(DateSources) - 1) : DateKey(counter) = k) + 1]]

\* patname.startswith("date_"): no other key of the catalog starts so
IsDateKey(patname) == patname \in DateKeys

(***************************************************************************)
(* The catalog: a dict, that is its keys in insertion order and the value  *)
(* of each.  A value is a pattern source (a str) or the matcher compiled   *)
(* from it.                                                                *)
(***************************************************************************)
Str_(src) == [compiled |-> FALSE, src |-> src]

PatternNames ==
    << "number_1", "number_2", "number_3", "url", "email", "unicode_alphanum",
       "time_hhmmss", "time_hhmm", "time_HHMM", "time_HH", "time_hmm",
       "currency", "unix_path" >>

PATTERNS ==
    [keys |-> PatternNames,
     vals |-> [k \in {PatternNames[i] : i \in 1..Len(PatternNames)} |-> Str_(<<k>>)]]

has(d, key) == key \in DOMAIN d.vals

\* d[key]
getitem(d, key) == d.vals[key]

\* d[key] = value
setitem(d, key, value) ==
    IF has(d, key) THEN [d EXCEPT !.vals[key] = value]
    ELSE [keys |-> Append(d.keys, key), vals |-> d.vals @@ (key :> value)]

\* self.patterns["date_%i" % counter] = pattern, for every counter: a key
\* that is there keeps its place, a new one goes to the end
_init_date_patterns(d) ==
    LET stored == [i \in 1..Len(DateSources) |-> DateKey(i - 1)]
        isNew(k) == ~has(d, k)
    IN  [keys |-> d.keys \o SelectSeq(stored, isNew),
         vals |-> [k \in DOMAIN d.vals \cup DateKeys |->
                     IF k \in DateKeys THEN Str_(DatePatterns[k]) ELSE d.vals[k]]]

\* regex.compile(value): a matcher for a source, the matcher itself for a matcher
compile(value) == [value EXCEPT !.compiled = TRUE]

\* compiles nothing when the catalog was compiled before
_compile_regexes_once(d) ==
    IF d.vals[d.keys[1]].compiled THEN d
    ELSE [d EXCEPT !.vals = [k \in DOMAIN d.vals |-> compile(d.vals[k])]]

_compile_regexes(d) == [d EXCEPT !.vals = [k \in DOMAIN d.vals |-> compile(d.vals[k])]]

\* pat.fullmatch(cell) is not None, for the matcher compiled from src
fullmatch(src, cell) ==
    IF Len(src) # 1 THEN AtEnd(cell, DatePieces(src, cell, {0}))
    ELSE CASE src[1] = "number_1" -> number_1(cell)
           [] src[1] = "number_2" -> number_2(cell)
           [] src[1] = "number_3" -> number_3(cell)
           [] src[1] = "url" -> url(cell)
           [] src[1] = "email" -> email(cell)
           [] src[1] = "unicode_alphanum" -> unicode_alphanum(cell)
           [] src[1] = "time_hhmmss" -> time_hhmmss(cell)
           [] src[1] = "time_hhmm" -> time_hhmm(cell)
           [] src[1] = "time_HHMM" -> time_HHMM(cell)
           [] src[1] = "time_HH" -> time_HH(cell)
           [] src[1] = "time_hmm" -> time_hmm(cell)
           [] src[1] = "currency" -> currency(cell)
           [] src[1] = "unix_path" -> unix_path(cell)

(***************************************************************************)
(* TypeDetector.  d is self.patterns, sw is self.strip_whitespace.  A call *)
(* ends with the value it returns, "True" or "False" for a bool, or with   *)
(* "AttributeError" when it raised it.                                     *)
(***************************************************************************)
Bool(b) == IF b THEN "True" ELSE "False"

\* a or b; if a: return True, then b
Or(a, b) == IF a = "False" THEN b ELSE a

\* a and b; if not a: return False, then b
And(a, b) == IF a = "True" THEN b ELSE a

\* not a
Not(a) == IF a = "AttributeError" THEN a ELSE Bool(a = "False")

\* the value None
None == [compiled |-> FALSE, src |-> <<>>]

\* self.patterns.get(patname, None)
get(d, patname) == IF has(d, patname) THEN getitem(d, patname) ELSE None

\* pat.fullmatch(cell) is not None; a str and None have no fullmatch
pat_fullmatch(pat, cell) ==
    IF ~pat.compiled THEN "AttributeError" ELSE Bool(fullmatch(pat.src, cell))

_run_regex(d, sw, cell, patname) ==
    pat_fullmatch(get(d, patname), IF sw THEN strip(cell, " ") ELSE cell)

\* of the results of a loop's calls, each with its place in the loop, the
\* one the loop ends with: the first that is not False, False when all are
first_not_False(results) ==
    LET hits == {r \in results : r[2] # "False"}
    IN  IF hits = {} THEN "False"
        ELSE (CHOOSE r \in hits : \A q \in hits : r[1] <= q[1])[2]

\* _run_regex with one pattern name after the other, up to the first that
\* matches
any_regex(d, sw, cell, patnames) ==
    first_not_False({<<i, _run_regex(d, sw, cell, patnames[i])>> :
                        i \in 1..Len(patnames)})

is_number(d, sw, cell) ==
    IF cell = <<>> THEN "False"
    ELSE any_regex(d, sw, cell, <<"number_1", "number_2", "number_3">>)

is_url_or_email(d, sw, cell) == any_regex(d, sw, cell, <<"url", "email">>)

is_unicode_alphanum(d, sw, cell) == _run_regex(d, sw, cell, "unicode_alphanum")

\* is_date without its is_number test
is_date_no_number_test(d, sw, cell) ==
    any_regex(d, sw, cell, SelectSeq(d.keys, IsDateKey))

is_date(d, sw, cell) ==
    And(Not(is_number(d, sw, cell)),
        any_regex(d, sw, cell, SelectSeq(d.keys, IsDateKey)))

is_time(d, sw, cell) ==
    any_regex(d, sw, cell, <<"time_hmm", "time_hhmm", "time_hhmmss">>)

is_empty(d, sw, cell) == Bool((IF sw THEN strip(cell, " ") ELSE cell) = <<>>)

is_percentage(d, sw, cell) ==
    LET c == IF sw THEN strip(cell, " ") ELSE cell
    IN  And(Bool(endswith(c, "%")), is_number(d, sw, rstrip(c, "%")))

is_currency(d, sw, cell) ==
    LET c == IF sw THEN strip(cell, " ") ELSE cell
    IN  And(pat_fullmatch(get(d, "currency"), c), is_number(d, sw, currencyGroup(c)))

\* istime1 and istime2 are both computed; then if not istime1: return False,
\* if istime2: return True, and the two bare offsets
OffsetResult(istime1, istime2, bare) ==
    IF istime1 = "AttributeError" THEN istime1
    ELSE IF istime2 = "AttributeError" THEN istime2
    ELSE IF istime1 = "False" THEN "False"
    ELSE IF istime2 = "True" THEN "True"
    ELSE bare

\* the "+" branch and the "-" branch of is_datetime, which differ in the
\* sign only, for parts[1] = part
OffsetBranch(d, sw, part, sign) ==
    LET subparts == split(part, sign)
    IN  OffsetResult(is_time(d, sw, subparts[1]), is_time(d, sw, subparts[2]),
                     any_regex(d, sw, subparts[2], <<"time_HHMM", "time_HH">>))

is_datetime(d, sw, cell) ==
    IF contains(cell, " ")
    THEN LET parts == split(cell, " ")
         IN  IF Len(parts) > 2 THEN "False"
             ELSE And(is_date(d, sw, parts[1]), is_time(d, sw, parts[2]))
    ELSE IF contains(cell, "T")
    THEN LET parts == split(cell, "T")
         IN  IF Len(parts) > 2 THEN "False"
             ELSE And(is_date(d, sw, parts[1]),
                      Or(is_time(d, sw, parts[2]),
                         IF contains(parts[2], "+") \/ contains(parts[2], "-")
                         THEN OffsetBranch(d, sw, parts[2],
                                           IF contains(parts[2], "+") THEN "+" ELSE "-")
                         ELSE "False"))
    ELSE "False"

is_nan(d, sw, cell) ==
    Bool(lower(IF sw THEN strip(cell, " ") ELSE cell) = <<"n", "/", "a">>)

\* the method of type_tests called name
TypeTest(name, d, sw, cell) ==
    CASE name = "empty" -> is_empty(d, sw, cell)
      [] name = "url_or_email" -> is_url_or_email(d, sw, cell)
      [] name = "number" -> is_number(d, sw, cell)
      [] name = "time" -> is_time(d, sw, cell)
      [] name = "percentage" -> is_percentage(d, sw, cell)
      [] name = "currency" -> is_currency(d, sw, cell)
      [] name = "unicode_alphanum" -> is_unicode_alphanum(d, sw, cell)
      [] name = "nan" -> is_nan(d, sw, cell)
      [] name = "date" -> is_date(d, sw, cell)
      [] name = "datetime" -> is_datetime(d, sw, cell)

\* unicode_alphanum tried before number
type_tests_alphanum_first ==
    << "empty", "url_or_email", "unicode_alphanum", "number", "time", "percentage",
       "currency", "nan", "date", "datetime" >>

type_tests ==
    << "empty", "url_or_email", "number", "time", "percentage", "currency",
       "unicode_alphanum", "nan", "date", "datetime" >>

\* if func(cell): return name, and the loop goes on otherwise
ReturnIf(test, name, rest) ==
    IF test = "True" THEN name ELSE IF test = "AttributeError" THEN test ELSE rest

\* the name of the first test of tests that is true of the cell, None when
\* there is none
RECURSIVE FirstTrue(_, _, _, _)
FirstTrue(tests, d, sw, cell) ==
    IF tests = <<>> THEN "None"
    ELSE ReturnIf(TypeTest(Head(tests), d, sw, cell), Head(tests),
                  FirstTrue(Tail(tests), d, sw, cell))

detect_type(d, sw, cell) == FirstTrue(type_tests, d, sw, cell)

\* not value is None
is_not_None(value) ==
    IF value = "AttributeError" THEN value ELSE Bool(value # "None")

is_known_type(d, sw, cell) == is_not_None(detect_type(d, sw, cell))

\* TypeDetector.__init__, on the catalog: _init_date_patterns, _compile_regexes
TypeDetector(d) == _compile_regexes(_init_date_patterns(d))

(***************************************************************************)
(* type_score.  A score is a fraction; eps is one too.                     *)
(***************************************************************************)
RECURSIVE CountRow(_, _, _)
CountRow(d, row, acc) ==
    IF row = <<>> THEN acc
    ELSE CountRow(d, Tail(row),
                  [total |-> acc.total + 1,
                   known |-> acc.known
                             + (IF is_known_type(d, TRUE, Head(row)) = "True" THEN 1 ELSE 0)])

RECURSIVE CountRows(_, _, _)
CountRows(d, data, acc) ==
    IF data = <<>> THEN acc
    ELSE CountRows(d, Tail(data), CountRow(d, Head(data), acc))

\* the smaller of the two
max_is_min(e, known, total) ==
    IF known * e.den < e.num * total THEN [num |-> known, den |-> total] ELSE e

\* max(eps, known / total): eps unless known / total is greater
max(e, known, total) ==
    IF known * e.den > e.num * total THEN [num |-> known, den |-> total] ELSE e

\* if total == 0: return eps; return max(eps, known / total)
score_of(e, n) == IF n.total = 0 THEN e ELSE max(e, n.known, n.total)

\* d is the catalog when type_score is called, data the rows parse_data
\* yields; td = TypeDetector() strips whitespace
type_score(d, data, e) ==
    score_of(e, CountRows(TypeDetector(d), data, [total |-> 0, known |-> 0]))

(***************************************************************************)
(* Bounds and inputs.                                                      *)
(***************************************************************************)
NumWorkers == 2

MaxTypeParts == 3

MaxNumberLen == 4

MaxAlnumLen == 3

MaxDateTimeParts == 3

MaxSeqParts == 1

MaxRows == 2

MaxCols == 2

Workers == 1..NumWorkers

\* the cells made of at most n of the tokens
RECURSIVE CellsOver(_, _)
CellsOver(tokens, n) ==
    IF n = 0 THEN {<<>>}
    ELSE LET shorter == CellsOver(tokens, n - 1)
         IN  shorter \cup {c \o t : c \in shorter, t \in tokens}

TypeTokens ==
    { <<"1", "1">>, <<"e">>, <<"w", "w", "w">>, <<"%">>, <<"$">>, <<" ">>,
      <<"n", "/", "a">>, <<"1", "-", "1", "-", "1", "1">>, <<"1", ":", "1", "1">>,
      <<"1", "1", "U5E74", "1", "U6708", "1", "U65E5">> }

NumberTokens == {<<"+">>, <<"-">>, <<".">>, <<",">>, <<"0">>, <<"1">>, <<"e">>}

AlnumTokens == {<<"e">>, <<"1">>, <<" ">>, <<".">>, <<"#">>}

DateTimeTokens ==
    { <<" ">>, <<"T">>, <<"1", "-", "1", "-", "1", "1">>, <<"1", ":", "1", "1">>,
      <<"1", "-", "1", "-", "1", "1", "T", "1", ":", "1", "1">>,
      <<"+", "1", ":", "1", "1">>, <<"-", "1", ":", "1", "1">>,
      <<"+", "0", "1", "1", "1">> }

SeqTokens == {<<"1", "1", "-", "0", "1", "-", "0", "1">>, <<"1", "1">>}

TypeCells == CellsOver(TypeTokens, MaxTypeParts)

NumberCells == CellsOver(NumberTokens, MaxNumberLen)

AlnumCells == CellsOver(AlnumTokens, MaxAlnumLen)

DateTimeCells == CellsOver(DateTimeTokens, MaxDateTimeParts)

SeqCells == CellsOver(SeqTokens, MaxSeqParts)

\* the cells of a table: the empty cell, of type empty, and a cell of no
\* known type
ScoreCells == {<<>>, <<"e">>}

RECURSIVE SeqsUpTo(_, _)
SeqsUpTo(S, n) ==
    IF n = 0 THEN {<<>>}
    ELSE LET shorter == SeqsUpTo(S, n - 1)
         IN  shorter \cup {Append(q, x) : q \in shorter, x \in S}

Tables == SeqsUpTo(SeqsUpTo(ScoreCells, MaxCols), MaxRows)

EpsSet == {[num |-> 1, den |-> 2], [num |-> 3, den |-> 2]}

(***************************************************************************)
(* The state.                                                              *)
(***************************************************************************)
VARIABLES
    patterns,   \* the module's PATTERNS dict, which every detector's
                \* self.patterns is
    det,        \* per worker, its TypeDetector: where its __init__ is, and
                \* its strip_whitespace
    cell,       \* the cell under study
    res,        \* what the last call on a detector ended with
    first,      \* per strip_whitespace, what the first detect_type(cell) ended with
    rows,       \* the rows parse_data yields for type_score's data
    eps,        \* type_score's eps
    score       \* <<the value type_score returned>>, <<>> before the call

vars == <<patterns, det, cell, res, first, rows, eps, score>>

Methods == {type_tests[i] : i \in 1..Len(type_tests)}

NoTests == [name \in Methods |-> "unset"]

NoRes == [called |-> "nothing", worker |-> 0, cell |-> <<>>, sw |-> FALSE,
          type |-> "unset", known |-> "unset", tests |-> NoTests]

NoDetector == [pc |-> "none", strip_whitespace |-> FALSE]

Ready(sw) == [pc |-> "ready", strip_whitespace |-> sw]

NoFirst == [sw \in BOOLEAN |-> [type |-> "unset", worker |-> 0]]

\* the module is imported and no detector is built
InitWith(cells) ==
    /\ patterns = PATTERNS
    /\ det = [w \in Workers |-> NoDetector]
    /\ cell \in cells
    /\ res = NoRes
    /\ first = NoFirst
    /\ rows = <<>>
    /\ eps \in {[num |-> 1, den |-> 2]}
    /\ score = <<>>

\* worker 1 has built the one detector there is
BuiltWith(cells) ==
    /\ patterns = TypeDetector(PATTERNS)
    /\ \E sw \in BOOLEAN :
          det = [w \in Workers |-> IF w = 1 THEN Ready(sw) ELSE NoDetector]
    /\ cell \in cells
    /\ res = NoRes
    /\ first = NoFirst
    /\ rows = <<>>
    /\ eps \in {[num |-> 1, den |-> 2]}
    /\ score = <<>>

(***************************************************************************)
(* TypeDetector.__init__ step by step, as workers interleave.              *)
(***************************************************************************)
\* self.patterns = PATTERNS; self.strip_whitespace = strip_whitespace
Begin(w, sw) ==
    /\ det[w].pc \in {"none", "ready"}
    /\ det' = [det EXCEPT ![w] = [pc |-> "init_dates", strip_whitespace |-> sw]]
    /\ UNCHANGED <<patterns, cell, res, first, rows, eps, score>>

InitDatePatterns(w) ==
    /\ det[w].pc = "init_dates"
    /\ patterns' = _init_date_patterns(patterns)
    /\ det' = [det EXCEPT ![w].pc = "compile"]
    /\ UNCHANGED <<cell, res, first, rows, eps, score>>

CompileRegexes(w) ==
    /\ det[w].pc = "compile"
    /\ patterns' = _compile_regexes(patterns)
    /\ det' = [det EXCEPT ![w].pc = "ready"]
    /\ UNCHANGED <<cell, res, first, rows, eps, score>>

\* TypeDetector(strip_whitespace) as one step
Construct(w, sw) ==
    /\ det[w].pc \in {"none", "ready"}
    /\ patterns' = TypeDetector(patterns)
    /\ det' = [det EXCEPT ![w] = Ready(sw)]
    /\ UNCHANGED <<cell, res, first, rows, eps, score>>

\* td.detect_type(c) on the detector of worker w
Classify(w, c) ==
    /\ det[w].pc = "ready"
    /\ res' = [called |-> "detect_type", worker |-> w, cell |-> c,
               sw |-> det[w].strip_whitespace,
               type |-> detect_type(patterns, det[w].strip_whitespace, c),
               known |-> "unset", tests |-> NoTests]
    /\ first' = IF c = cell /\ first[res'.sw].type = "unset"
                THEN [first EXCEPT ![res'.sw] = [type |-> res'.type, worker |-> w]]
                ELSE first
    /\ UNCHANGED <<patterns, det, cell, rows, eps, score>>

\* every public method of the detector of worker w, called on c
Evaluate(w, c) ==
    /\ det[w].pc = "ready"
    /\ res' = [called |-> "all", worker |-> w, cell |-> c,
               sw |-> det[w].strip_whitespace,
               type |-> detect_type(patterns, det[w].strip_whitespace, c),
               known |-> is_known_type(patterns, det[w].strip_whitespace, c),
               tests |-> [name \in Methods |->
                             TypeTest(name, patterns, det[w].strip_whitespace, c)]]
    /\ UNCHANGED <<patterns, det, cell, first, rows, eps, score>>

\* type_score(data, dialect, eps), which builds its own detector
TypeScore ==
    /\ patterns' = TypeDetector(patterns)
    /\ score' = <<type_score(patterns, rows, eps)>>
    /\ UNCHANGED <<det, cell, res, first, rows, eps>>

(***************************************************************************)
(* Specifications.                                                         *)
(***************************************************************************)
\* workers that build detectors and classify the cell, interleaved
Init == InitWith(SeqCells)

Next ==
    \E w \in Workers :
        \/ \E sw \in BOOLEAN : Begin(w, sw)
        \/ InitDatePatterns(w)
        \/ CompileRegexes(w)
        \/ Classify(w, cell)

Spec == Init /\ [][Next]_vars

\* the same, one whole operation after the other
SeqNext ==
    \E w \in Workers :
        \/ \E sw \in BOOLEAN : Construct(w, sw)
        \/ \E c \in SeqCells : Classify(w, c)

SeqSpec == Init /\ [][SeqNext]_vars

\* one detector and every method of it, on the cells of a token set
EvalNext == \E w \in Workers : Evaluate(w, cell)

TypeInit == BuiltWith(TypeCells)

TypeSpec == TypeInit /\ [][EvalNext]_vars

NumberInit == BuiltWith(NumberCells)

NumberSpec == NumberInit /\ [][EvalNext]_vars

AlnumInit == BuiltWith(AlnumCells)

AlnumSpec == AlnumInit /\ [][EvalNext]_vars

DateTimeInit == BuiltWith(DateTimeCells)

DateTimeSpec == DateTimeInit /\ [][EvalNext]_vars

\* type_score on the tables
ScoreInit ==
    /\ patterns = PATTERNS
    /\ det = [w \in Workers |-> NoDetector]
    /\ cell = <<>>
    /\ res = NoRes
    /\ first = NoFirst
    /\ rows \in Tables
    /\ eps \in EpsSet
    /\ score = <<>>

ScoreNext == TypeScore

ScoreSpec == ScoreInit /\ [][ScoreNext]_vars

(***************************************************************************)
(* The claims.                                                             *)
(***************************************************************************)
Min(S) == CHOOSE x \in S : \A y \in S : x <= y

\* the cell as _run_regex matches it
Matched(r) == IF r.sw THEN strip(r.cell, " ") ELSE r.cell

ClaimOrder ==
    << "empty", "url_or_email", "number", "time", "percentage", "currency",
       "unicode_alphanum", "nan", "date", "datetime" >>

TrueTests(r) == {i \in 1..Len(ClaimOrder) : r.tests[ClaimOrder[i]] = "True"}

\* C1: detect_type returns the label of the first predicate, in the order
\* empty, url-or-email, number, time, percentage, currency, alphanumeric,
\* not-a-number, date, date-time, that is true of the cell; it returns None
\* exactly when none of the ten is true, and is_known_type is false exactly then.
C1_FirstTruePredicate ==
    res.called = "all" =>
        /\ \A name \in Methods : res.tests[name] \in {"True", "False"}
        /\ TrueTests(res) = {} => res.type = "None" /\ res.known = "False"
        /\ TrueTests(res) # {} =>
              res.type = ClaimOrder[Min(TrueTests(res))] /\ res.known = "True"

\* a cell of which two predicates are true got the label of the earlier one
C1_Witness ==
    /\ res.called = "all"
    /\ res.type = "number"
    /\ res.tests["unicode_alphanum"] = "True"

PlainInteger(c) ==
    /\ c # <<>>
    /\ \A i \in 1..Len(c) : c[i] \in Digits
    /\ c[1] # "0" \/ Len(c) = 1

CompactDatePatterns ==
    {pat_1(y, "month_leading", "day_leading", <<>>) : y \in {"year2", "year4"}}
    \cup {pat_2(y, "month_leading", "day_leading", <<>>) : y \in {"year2", "year4"}}
    \cup {pat_3(y, "month_leading", "day_leading", <<>>) : y \in {"year2", "year4"}}

CompactDate(c) == \E src \in CompactDatePatterns : fullmatch(src, c)

\* C2: is_number and is_date are never both true of a cell, detect_type
\* never returns "date" for a cell is_number accepts, and a cell that is a
\* plain integer and matches a compact date pattern is reported as "number".
C2_NumberNeverDate ==
    res.called = "all" =>
        /\ ~(res.tests["number"] = "True" /\ res.tests["date"] = "True")
        /\ res.tests["number"] = "True" => res.type # "date"
        /\ PlainInteger(Matched(res)) /\ CompactDate(Matched(res)) => res.type = "number"

\* a plain integer that matches a compact date pattern was reported as number
C2_Witness ==
    /\ res.called = "all"
    /\ PlainInteger(Matched(res)) /\ CompactDate(Matched(res))
    /\ res.type = "number"

\* fractions by value
FracEq(a, b) == a.num * b.den = b.num * a.den

FracLeq(a, b) == a.num * b.den <= b.num * a.den

One == [num |-> 1, den |-> 1]

CellsOf(data) == UNION {{<<i, j>> : j \in 1..Len(data[i])} : i \in 1..Len(data)}

KnownCellsOf(data) ==
    {p \in CellsOf(data) :
        detect_type(TypeDetector(PATTERNS), TRUE, data[p[1]][p[2]]) # "None"}

AllEmpty(data) == \A p \in CellsOf(data) : data[p[1]][p[2]] = <<>>

Ratio(data) ==
    [num |-> Cardinality(KnownCellsOf(data)), den |-> Cardinality(CellsOf(data))]

\* the score of a table with cells, as C3 states it
ClaimedScore(data, e) == IF FracLeq(Ratio(data), e) THEN e ELSE Ratio(data)

\* what C3 says of every table, but for its last clause
C3_Score ==
    LET s == score[1]
    IN  /\ CellsOf(rows) = {} => s = eps
        /\ CellsOf(rows) # {} => FracEq(s, ClaimedScore(rows, eps))
        /\ FracLeq(eps, s)

\* C3 as stated: type_score returns eps when the table has no cells and
\* max(eps, known/total) otherwise, never less than eps, and a table whose
\* cells are all empty strings scores 1.0.
C3_AllEmptyScoresOne ==
    score # <<>> =>
        /\ C3_Score
        /\ CellsOf(rows) # {} /\ AllEmpty(rows) => FracEq(score[1], One)

\* C3 amended: type_score returns eps when the table has no cells and
\* max(eps, known/total) otherwise, never less than eps; a table with cells
\* that are all empty strings scores 1.0 when eps is at most 1.0, and eps
\* when eps is more.
C3_AllEmptyScoresOneUnlessEpsMore ==
    score # <<>> =>
        /\ C3_Score
        /\ CellsOf(rows) # {} /\ AllEmpty(rows) =>
              FracEq(score[1], IF FracLeq(eps, One) THEN One ELSE eps)

\* a table of empty cells was scored 1.0
C3_Witness ==
    /\ score # <<>>
    /\ CellsOf(rows) # {} /\ AllEmpty(rows)
    /\ FracEq(score[1], One)

\* C4: however the workers interleave, a call of detect_type ends without
\* error and with the label a sequential run gives: _run_regex never reads
\* a catalog entry that is no compiled matcher.
C4_NoErrorAtEvaluation ==
    res.called = "detect_type" =>
        /\ res.type # "AttributeError"
        /\ res.type = detect_type(TypeDetector(PATTERNS), res.sw, res.cell)

\* C5: once a detector is built, no step changes an entry of the catalog it
\* uses, and no entry goes back from a compiled matcher to a pattern source.
C5_CatalogImmutable ==
    [][(\E w \in Workers : det[w].pc = "ready") =>
          \A k \in DOMAIN patterns.vals :
              patterns.vals[k].compiled => patterns'.vals[k] = patterns.vals[k]]_vars

\* C6: after any sequence of constructions and classifications, detect_type
\* of the cell, on any detector with the same strip setting, ends as the
\* first such call did.
C6_SameLabelAsFirstCall ==
    res.called = "detect_type" /\ res.cell = cell => res.type = first[res.sw].type

\* a detector other than the first call's has classified the cell, a date
C6_Witness ==
    /\ res.called = "detect_type" /\ res.cell = cell
    /\ first[res.sw].worker # res.worker
    /\ res.type = "date"

\* C7: with stripping on, every predicate and detect_type give for a cell
\* what they give for the cell without its leading and trailing spaces.
C7_StripInvariant ==
    res.called = "all" /\ res.sw =>
        /\ \A name \in Methods :
              res.tests[name] = TypeTest(name, patterns, TRUE, strip(res.cell, " "))
        /\ res.type = detect_type(patterns, TRUE, strip(res.cell, " "))

\* the second subpart of an offset: a time, or hour then minute with no separator
ClaimedOffset(d, sw, part, sign) ==
    LET subparts == split(part, sign)
    IN  /\ Len(subparts) = 2
        /\ is_time(d, sw, subparts[1]) = "True"
        /\ is_time(d, sw, subparts[2]) = "True" \/ time_HHMM(subparts[2])

\* C8: of a cell with no space and a "T", is_datetime is true only if the
\* cell splits on "T" into exactly a date and a rest, and the rest is a time
\* or splits on "+" (or on "-") into exactly two subparts, a time and then a
\* time or a bare offset.
C8_DatetimeShape ==
    res.called = "all" /\ ~contains(res.cell, " ") /\ contains(res.cell, "T")
    /\ res.tests["datetime"] = "True" =>
        LET parts == split(res.cell, "T")
        IN  /\ Len(parts) = 2
            /\ is_date(patterns, res.sw, parts[1]) = "True"
            /\ \/ is_time(patterns, res.sw, parts[2]) = "True"
               \/ ClaimedOffset(patterns, res.sw, parts[2], "+")
               \/ ClaimedOffset(patterns, res.sw, parts[2], "-")

\* the plain form as C9 states it: sign, integer part, then a dot or a comma
\* (or neither), fractional digits and an exponent, each optional
ClaimedPlainNumber(s) ==
    LET P1 == {0} \cup In(s, {0}, {"+", "-"})
        P2 == Lit(s, P1, "0") \cup Star(s, In(s, P1, Digits \ {"0"}), Digits)
        P3 == P2 \cup In(s, P2, {".", ","})
        P4 == Star(s, P3, Digits)
    IN  AtEnd(s, P4 \cup Exponent(s, P4))

\* C9: is_number is false of the empty cell and true exactly of the cells of
\* the plain form, the comma-grouped form and the dot-grouped form; a cell
\* with no digit is not a number.
C9_NumberForms ==
    res.called = "all" =>
        LET c == Matched(res)
        IN  /\ res.tests["number"] = "True" <=>
                  c # <<>> /\ (ClaimedPlainNumber(c) \/ number_2(c) \/ number_3(c))
            /\ (\A i \in 1..Len(c) : c[i] \notin Digits) => res.tests["number"] = "False"

\* the token as C10 states it: both alternatives end in a run that may be empty
ClaimedAlphanum(s) ==
    AtEnd(s, Star(s, Plus(s, Plus(s, {0}, UnicodeN), UnicodeL), alnumRun)
             \cup Star(s, Plus(s, {0}, UnicodeL), alnumRun))

\* C10: is_unicode_alphanum is true exactly of digits, letters, run and of
\* letters, run, where the run may be empty: a cell of letters only is
\* accepted, also one of a single letter.
C10_AlphanumToken ==
    res.called = "all" =>
        (res.tests["unicode_alphanum"] = "True" <=> ClaimedAlphanum(Matched(res)))

====
